---------------------------- MODULE Spec2Model ----------------------------
(***************************************************************************)
(* memcached_benchmark (src/src/main.rs): the UDP GET benchmark.           *)
(*                                                                         *)
(* main connects the admin client, runs the example check, builds the      *)
(* corpus, flushes and sets every entry, spawns args.threads benchmark     *)
(* tasks, joins them in spawn order and asks for the stats.  Each          *)
(* benchmark task (get_command_benchmark) binds a UDP socket, creates a    *)
(* bounded mpsc channel, spawns socket_task on the receiving end and then  *)
(* pushes nums (packet, addr) envelopes, drops the sending end and awaits  *)
(* socket_task.  socket_task dequeues an envelope, hands its packet to     *)
(* send_to, calls recv_from and loops.                                     *)
(***************************************************************************)
EXTENDS Integers, Sequences, FiniteSets, TLC

(***************************************************************************)
(* Bounds of the model.                                                    *)
(***************************************************************************)
\* largest args.threads of a run
MaxThreads == 2
\* largest args.nums (requests per benchmark task) of a run
MaxNums == 3
\* largest threads * nums of a run
MaxTotal == 4
\* largest corpus (test_dict.len()) of a run
MaxDict == 2
\* the capacity of the dispatch channel, mpsc::channel(1000), scaled down
ChanCap == 2

\* longest key of the codec and corpus checks (args.key_size)
MaxKeyLen == 2

\* longest value of the corpus check (args.value_size)
MaxValLen == 1
\* largest entry count the corpus generator is called with (NUM_ENTRIES,
\* scaled down)
MaxEntries == 3

\* most iterations of the producer loop in the sequence counter check: past
\* the 65536 values of a u16
MaxPushes == 65538

(***************************************************************************)
(* Program constants.                                                      *)
(***************************************************************************)
\* u16 arithmetic of the sequence counter is modulo 2^16
U16 == 65536

Tasks == 1..MaxThreads

\* The sizes of the corpus main hands to the benchmark tasks.  The map keeps
\* one entry per distinct key, and the NUM_ENTRIES random keys main draws
\* hold at least two distinct ones (unless every draw collides).  A corpus
\* of fewer than two keys, on which gen_range(0..dict_len - 1) has no index
\* to return, is a state of CorpusSpec only.
DictLens == 2..MaxDict

\* The letters keys and values are made of: Alphanumeric has 62, two of
\* them ("A", "B") are enough for strings to differ and to collide.
Letters == {65, 66}

\* the strings of exactly n letters
RECURSIVE StringsOfLen(_)
StringsOfLen(n) ==
    IF n = 0 THEN {<<>>}
    ELSE {<<c>> \o w : c \in Letters, w \in StringsOfLen(n - 1)}

\* the strings of at most n letters
StringsUpTo(n) == UNION {StringsOfLen(j) : j \in 0..n}

\* the two alternatives of every Result the program looks at
Results == {"ok", "err"}

VARIABLES
    threads,      \* args.threads
    nums,         \* args.nums
    dictLen,      \* test_dict.len(), 0 until the corpus is generated
    mainpc,       \* the statement main is at
    outcome,      \* "running", or what main returned: "ok" / "err"
    setCount,     \* corpus entries set on the server so far
    spawned,      \* benchmark tasks spawned so far
    joined,       \* handles awaited so far
    calls,        \* history: the fallible calls main has made, with their results
    tpc,          \* per task: the statement get_command_benchmark is at
    iter,         \* per task: completed iterations of the for loop
    seq,          \* per task: the u16 sequence counter
    pending,      \* per task: the envelope tx.send is called with
    txDropped,    \* per task: the sending end has been dropped
    breakTaken,   \* per task: the loop was left through the break
    elapsed,      \* per task: number of "Time elapsed" lines printed
    chan,         \* per task: the envelopes queued in the channel
    wpc,          \* per task: the statement socket_task is at
    cur,          \* per task: the packet socket_task dequeued last
    net,          \* per task: request datagrams on their way to the server
    inbox,        \* per task: datagrams queued at the task's socket
    pushed,       \* per task: history, the envelopes accepted by the channel
    deq,          \* per task: history, the envelopes rx.recv() returned
    handed,       \* per task: history, the packets handed to send_to
    waitsEnded,   \* per task: history, the recv_from calls that returned
    sendFailed,   \* per task: history, the last send_to returned Err
    lastRecv,     \* per task: history, what the last recv_from returned
    fnPc,         \* the function under study on its own, and its stage
    fnArg,        \* its arguments
    fnRes         \* its result

mainVars == <<threads, nums, dictLen, mainpc, outcome, setCount, spawned,
              joined, calls>>
prodVars == <<tpc, iter, seq, pending, txDropped, breakTaken, elapsed>>
workVars == <<wpc, cur, handed, waitsEnded, sendFailed, lastRecv>>
chanVars == <<chan, pushed, deq>>
netVars  == <<net, inbox>>
fnVars   == <<fnPc, fnArg, fnRes>>
vars == <<mainVars, prodVars, workVars, chanVars, netVars, fnVars>>

(***************************************************************************)
(* Protocol codec.                                                         *)
(***************************************************************************)
\* the destination of every datagram: format!("{}:{}", server_address, port)
Addr == "server_address:port"

\* keys[k]: the corpus keys are distinct alphanumeric strings; the k-th key
\* of the vector is modelled by the one-letter string "A", "B", ...
KeyStr(k) == <<65 + k>>

\* to_be_bytes as it would be with the low byte first (to_le_bytes)
ToBeBytes_LittleEndian(s) == <<s % 256, s \div 256>>

\* seq.to_be_bytes()
ToBeBytes(s) == <<s \div 256, s % 256>>

\* u16::from_be_bytes: the sequence id a datagram header carries
FromBeBytes(b) == b[1] * 256 + b[2]

\* format!("get {}\r\n", key).into_bytes()
GetCommand(key) == <<103, 101, 116, 32>> \o key \o <<13, 10>>

\* wrap_get_command: sequence id, then the six fixed bytes, then the command
wrap_get_command(key, s) == ToBeBytes(s) \o <<0, 0, 0, 1, 0, 0>> \o GetCommand(key)

\* the increment as it would be with saturating_add: it stops at u16::MAX
WrappingAdd1_Saturating(s) == IF s + 1 < U16 THEN s + 1 ELSE s

\* seq.wrapping_add(1)
WrappingAdd1(s) == (s + 1) % U16

\* the key of a request frame: what lies between "get " and "\r\n"
KeyOfFrame(b) == SubSeq(b, 13, Len(b) - 2)

\* test_dict[key]: the value stored under a key ("A" has "a", "B" has "b")
CorpusValue(key) == [j \in 1..Len(key) |-> key[j] + 32]

\* A response datagram: the sequence id of its header and the value it
\* carries (the empty string when the server has no value for the key).
Datagram(s, value) == <<s, value>>

\* what the server answers to a request frame when it holds the corpus
Response(b) == Datagram(FromBeBytes(b), CorpusValue(KeyOfFrame(b)))

\* nothing received: recv_from has not returned a datagram
NoDatagram == <<>>

\* rand::thread_rng().gen_range(0..dict_len - 1): the indices it can return
GenRange(n) == 0..(n - 2)

(***************************************************************************)
(* Initial state: the command line is parsed, nothing has run.             *)
(***************************************************************************)
\* no benchmark task and no socket_task exists yet
TasksNotStarted ==
    /\ tpc = [t \in Tasks |-> "unspawned"]
    /\ iter = [t \in Tasks |-> 0]
    /\ seq = [t \in Tasks |-> 0]
    /\ pending = [t \in Tasks |-> <<>>]
    /\ txDropped = [t \in Tasks |-> FALSE]
    /\ breakTaken = [t \in Tasks |-> FALSE]
    /\ elapsed = [t \in Tasks |-> 0]
    /\ chan = [t \in Tasks |-> <<>>]
    /\ wpc = [t \in Tasks |-> "none"]
    /\ cur = [t \in Tasks |-> <<>>]
    /\ net = [t \in Tasks |-> <<>>]
    /\ inbox = [t \in Tasks |-> <<>>]
    /\ pushed = [t \in Tasks |-> <<>>]
    /\ deq = [t \in Tasks |-> <<>>]
    /\ handed = [t \in Tasks |-> <<>>]
    /\ waitsEnded = [t \in Tasks |-> 0]
    /\ sendFailed = [t \in Tasks |-> FALSE]
    /\ lastRecv = [t \in Tasks |-> NoDatagram]

\* no function is exercised on its own: the whole program runs
FnUnused ==
    /\ fnPc = "program"
    /\ fnArg = <<>>
    /\ fnRes = <<>>

Init ==
    /\ threads \in 0..MaxThreads
    /\ nums \in 0..MaxNums
    /\ threads * nums <= MaxTotal
    /\ dictLen = 0
    /\ mainpc = "connect"
    /\ outcome = "running"
    /\ setCount = 0
    /\ spawned = 0
    /\ joined = 0
    /\ calls = <<>>
    /\ TasksNotStarted
    /\ FnUnused

\* main does not run: one function is exercised on its own
ProgramUnused ==
    /\ threads = 0
    /\ nums = 0
    /\ dictLen = 0
    /\ mainpc = "connect"
    /\ outcome = "running"
    /\ setCount = 0
    /\ spawned = 0
    /\ joined = 0
    /\ calls = <<>>
    /\ TasksNotStarted


(***************************************************************************)
(* main.  A failing `?` returns Err from main: outcome becomes "err" and   *)
(* main takes no further step.                                             *)
(***************************************************************************)
\* where main goes once the corpus is on the server: the spawn loop, or,
\* with no thread to spawn, past both loops to the stats
AfterSetup == IF threads > 0 THEN "spawn" ELSE "stats"

\* get_server(...)?
Connect ==
    /\ outcome = "running"
    /\ mainpc = "connect"
    /\ \E r \in Results :
        /\ calls' = Append(calls, <<"connect", r>>)
        /\ IF r = "ok"
           THEN mainpc' = "example" /\ outcome' = outcome
           ELSE mainpc' = mainpc /\ outcome' = "err"
    /\ UNCHANGED <<threads, nums, dictLen, setCount, spawned, joined>>
    /\ UNCHANGED <<prodVars, workVars, chanVars, netVars>>
    /\ UNCHANGED fnVars

\* exmaple_method(&server)?, then generate_memcached_test_dict: NUM_ENTRIES
\* random pairs collected into a map
Example ==
    /\ outcome = "running"
    /\ mainpc = "example"
    /\ \E r \in Results :
        /\ calls' = Append(calls, <<"example", r>>)
        /\ IF r = "ok"
           THEN /\ mainpc' = "flush"
                /\ outcome' = outcome
                /\ dictLen' \in DictLens
           ELSE /\ mainpc' = mainpc
                /\ outcome' = "err"
                /\ dictLen' = dictLen
    /\ UNCHANGED <<threads, nums, setCount, spawned, joined>>
    /\ UNCHANGED <<prodVars, workVars, chanVars, netVars>>
    /\ UNCHANGED fnVars

\* flush as it would be if its error were only logged
Flush_ErrorIgnored ==
    /\ outcome = "running"
    /\ mainpc = "flush"
    /\ \E r \in Results :
        /\ calls' = Append(calls, <<"flush", r>>)
        /\ mainpc' = "set"
        /\ outcome' = outcome
    /\ UNCHANGED <<threads, nums, dictLen, setCount, spawned, joined>>
    /\ UNCHANGED <<prodVars, workVars, chanVars, netVars>>
    /\ UNCHANGED fnVars

\* set_memcached_value: server.flush()?
Flush ==
    /\ outcome = "running"
    /\ mainpc = "flush"
    /\ \E r \in Results :
        /\ calls' = Append(calls, <<"flush", r>>)
        /\ IF r = "ok"
           THEN mainpc' = "set" /\ outcome' = outcome
           ELSE mainpc' = mainpc /\ outcome' = "err"
    /\ UNCHANGED <<threads, nums, dictLen, setCount, spawned, joined>>
    /\ UNCHANGED <<prodVars, workVars, chanVars, netVars>>
    /\ UNCHANGED fnVars

\* set_memcached_value: one server.set(key, value, 0)? of the for loop
SetEntry ==
    /\ outcome = "running"
    /\ mainpc = "set"
    /\ setCount < dictLen
    /\ \E r \in Results :
        /\ calls' = Append(calls, <<"set", r>>)
        /\ IF r = "ok"
           THEN /\ setCount' = setCount + 1
                /\ mainpc' = IF setCount + 1 = dictLen THEN AfterSetup ELSE "set"
                /\ outcome' = outcome
           ELSE /\ setCount' = setCount
                /\ mainpc' = mainpc
                /\ outcome' = "err"
    /\ UNCHANGED <<threads, nums, dictLen, spawned, joined>>
    /\ UNCHANGED <<prodVars, workVars, chanVars, netVars>>
    /\ UNCHANGED fnVars

\* one tokio::spawn of the for loop over 0..args.threads
SpawnTask ==
    /\ outcome = "running"
    /\ mainpc = "spawn"
    /\ spawned < threads
    /\ spawned' = spawned + 1
    /\ tpc' = [tpc EXCEPT ![spawned + 1] = "bind"]
    /\ mainpc' = IF spawned + 1 = threads THEN "join" ELSE "spawn"
    /\ UNCHANGED <<threads, nums, dictLen, outcome, setCount, joined, calls>>
    /\ UNCHANGED <<iter, seq, pending, txDropped, breakTaken, elapsed>>
    /\ UNCHANGED <<workVars, chanVars, netVars>>
    /\ UNCHANGED fnVars

\* a benchmark task has returned (the spawned block maps Ok and Err to ())
Finished(t) == tpc[t] \in {"ok", "err"}

\* the join loop as it would be if a handle were dropped instead of awaited
JoinTask_NoWait ==
    /\ outcome = "running"
    /\ mainpc = "join"
    /\ joined < threads
    /\ joined' = joined + 1
    /\ mainpc' = IF joined + 1 = threads THEN "stats" ELSE "join"
    /\ UNCHANGED <<threads, nums, dictLen, outcome, setCount, spawned, calls>>
    /\ UNCHANGED <<prodVars, workVars, chanVars, netVars>>
    /\ UNCHANGED fnVars

\* one handle.await? of the for loop over handles
JoinTask ==
    /\ outcome = "running"
    /\ mainpc = "join"
    /\ joined < threads
    /\ Finished(joined + 1)
    /\ joined' = joined + 1
    /\ mainpc' = IF joined + 1 = threads THEN "stats" ELSE "join"
    /\ UNCHANGED <<threads, nums, dictLen, outcome, setCount, spawned, calls>>
    /\ UNCHANGED <<prodVars, workVars, chanVars, netVars>>
    /\ UNCHANGED fnVars

\* handle.await? on a task that panicked: the JoinError is returned by `?`
JoinPanicked ==
    /\ outcome = "running"
    /\ mainpc = "join"
    /\ joined < threads
    /\ tpc[joined + 1] = "panicked"
    /\ outcome' = "err"
    /\ UNCHANGED <<threads, nums, dictLen, mainpc, setCount, spawned, joined, calls>>
    /\ UNCHANGED <<prodVars, workVars, chanVars, netVars>>
    /\ UNCHANGED fnVars

\* server.stats()?, the println and Ok(())
Stats ==
    /\ outcome = "running"
    /\ mainpc = "stats"
    /\ \E r \in Results :
        /\ calls' = Append(calls, <<"stats", r>>)
        /\ IF r = "ok"
           THEN mainpc' = "done" /\ outcome' = "ok"
           ELSE mainpc' = mainpc /\ outcome' = "err"
    /\ UNCHANGED <<threads, nums, dictLen, setCount, spawned, joined>>
    /\ UNCHANGED <<prodVars, workVars, chanVars, netVars>>
    /\ UNCHANGED fnVars


(***************************************************************************)
(* get_command_benchmark, task t.                                          *)
(***************************************************************************)
\* the loop head as it would be with the range 0..nums - 1
LoopHead_OneShort(k) == IF k < nums - 1 THEN "loop" ELSE "drop"

\* where the task goes at the head of the for loop after k iterations
LoopHead(k) == IF k < nums THEN "loop" ELSE "drop"

\* UdpSocket::bind("0.0.0.0:0").await?, then mpsc::channel and the spawn of
\* socket_task.  On a bind error the function returns Err, which the
\* spawned block of main only prints.
Bind(t) ==
    /\ tpc[t] = "bind"
    /\ \E r \in Results :
        IF r = "ok"
        THEN /\ tpc' = [tpc EXCEPT ![t] = LoopHead(0)]
             /\ wpc' = [wpc EXCEPT ![t] = "recv"]
        ELSE /\ tpc' = [tpc EXCEPT ![t] = "err"]
             /\ wpc' = wpc
    /\ UNCHANGED <<iter, seq, pending, txDropped, breakTaken, elapsed>>
    /\ UNCHANGED <<cur, handed, waitsEnded, sendFailed, lastRecv>>
    /\ UNCHANGED <<mainVars, chanVars, netVars>>
    /\ UNCHANGED fnVars

\* the loop body up to the call of tx.send: sample a key index, build the
\* packet with the current seq, advance seq
Produce(t) ==
    /\ tpc[t] = "loop"
    /\ \E k \in GenRange(dictLen) :
        pending' = [pending EXCEPT ![t] = <<wrap_get_command(KeyStr(k), seq[t]), Addr>>]
    /\ seq' = [seq EXCEPT ![t] = WrappingAdd1(seq[t])]
    /\ tpc' = [tpc EXCEPT ![t] = "send"]
    /\ UNCHANGED <<iter, txDropped, breakTaken, elapsed>>
    /\ UNCHANGED <<mainVars, workVars, chanVars, netVars>>
    /\ UNCHANGED fnVars

\* the loop body on a corpus of fewer than two keys: dict_len - 1 overflows
\* (dict_len = 0: a panic in a debug build, and in a release build an index
\* past the end of the empty keys) or the range 0..0 is empty and gen_range
\* panics (dict_len = 1).  The task unwinds: tx is dropped, the handle of
\* socket_task is dropped without being awaited, nothing is printed.
ProducePanic(t) ==
    /\ tpc[t] = "loop"
    /\ GenRange(dictLen) = {}
    /\ tpc' = [tpc EXCEPT ![t] = "panicked"]
    /\ txDropped' = [txDropped EXCEPT ![t] = TRUE]
    /\ UNCHANGED <<iter, seq, pending, breakTaken, elapsed>>
    /\ UNCHANGED <<mainVars, workVars, chanVars, netVars>>
    /\ UNCHANGED fnVars

\* the receiving end is gone: socket_task has returned and dropped rx
RxDropped(t) == wpc[t] = "stopped"

\* tx.send as it would be on an unbounded channel: it never waits
ChanSend_Unbounded(t) ==
    /\ tpc[t] = "send"
    /\ IF RxDropped(t)
       THEN /\ breakTaken' = [breakTaken EXCEPT ![t] = TRUE]
            /\ tpc' = [tpc EXCEPT ![t] = "drop"]
            /\ UNCHANGED <<iter, chan, pushed>>
       ELSE /\ chan' = [chan EXCEPT ![t] = Append(chan[t], pending[t])]
            /\ pushed' = [pushed EXCEPT ![t] = Append(pushed[t], pending[t])]
            /\ iter' = [iter EXCEPT ![t] = iter[t] + 1]
            /\ tpc' = [tpc EXCEPT ![t] = LoopHead(iter[t] + 1)]
            /\ breakTaken' = breakTaken
    /\ UNCHANGED <<seq, pending, txDropped, elapsed, deq>>
    /\ UNCHANGED <<mainVars, workVars, netVars>>
    /\ UNCHANGED fnVars

\* tx.send((packet, addr)).await and the test of its result: Err (and the
\* break) once the receiver is dropped; otherwise the call completes when
\* the channel has a free slot, and is suspended while it has none
ChanSend(t) ==
    /\ tpc[t] = "send"
    /\ IF RxDropped(t)
       THEN /\ breakTaken' = [breakTaken EXCEPT ![t] = TRUE]
            /\ tpc' = [tpc EXCEPT ![t] = "drop"]
            /\ UNCHANGED <<iter, chan, pushed>>
       ELSE /\ Len(chan[t]) < ChanCap
            /\ chan' = [chan EXCEPT ![t] = Append(chan[t], pending[t])]
            /\ pushed' = [pushed EXCEPT ![t] = Append(pushed[t], pending[t])]
            /\ iter' = [iter EXCEPT ![t] = iter[t] + 1]
            /\ tpc' = [tpc EXCEPT ![t] = LoopHead(iter[t] + 1)]
            /\ breakTaken' = breakTaken
    /\ UNCHANGED <<seq, pending, txDropped, elapsed, deq>>
    /\ UNCHANGED <<mainVars, workVars, netVars>>
    /\ UNCHANGED fnVars

\* the end of the loop as it would be if tx were kept alive while
\* socket_task is awaited
DropTx_Forgotten(t) ==
    /\ tpc[t] = "drop"
    /\ tpc' = [tpc EXCEPT ![t] = "await"]
    /\ UNCHANGED <<iter, seq, pending, txDropped, breakTaken, elapsed>>
    /\ UNCHANGED <<mainVars, workVars, chanVars, netVars>>
    /\ UNCHANGED fnVars

\* drop(tx)
DropTx(t) ==
    /\ tpc[t] = "drop"
    /\ txDropped' = [txDropped EXCEPT ![t] = TRUE]
    /\ tpc' = [tpc EXCEPT ![t] = "await"]
    /\ UNCHANGED <<iter, seq, pending, breakTaken, elapsed>>
    /\ UNCHANGED <<mainVars, workVars, chanVars, netVars>>
    /\ UNCHANGED fnVars

\* the end of the task as it would be if socket_task were not awaited
AwaitWorker_NoWait(t) ==
    /\ tpc[t] = "await"
    /\ elapsed' = [elapsed EXCEPT ![t] = elapsed[t] + 1]
    /\ tpc' = [tpc EXCEPT ![t] = "ok"]
    /\ UNCHANGED <<iter, seq, pending, txDropped, breakTaken>>
    /\ UNCHANGED <<mainVars, workVars, chanVars, netVars>>
    /\ UNCHANGED fnVars

\* socket_task.await? returns once socket_task has returned; then the
\* elapsed time is printed and the function returns Ok(())
AwaitWorker(t) ==
    /\ tpc[t] = "await"
    /\ wpc[t] = "stopped"
    /\ elapsed' = [elapsed EXCEPT ![t] = elapsed[t] + 1]
    /\ tpc' = [tpc EXCEPT ![t] = "ok"]
    /\ UNCHANGED <<iter, seq, pending, txDropped, breakTaken>>
    /\ UNCHANGED <<mainVars, workVars, chanVars, netVars>>
    /\ UNCHANGED fnVars

(***************************************************************************)
(* socket_task of task t.                                                  *)
(***************************************************************************)
\* rx.recv() as it would be if it returned the newest queued envelope
ChanRecv_Newest(t) ==
    /\ wpc[t] = "recv"
    /\ IF chan[t] # <<>>
       THEN /\ cur' = [cur EXCEPT ![t] = chan[t][Len(chan[t])]]
            /\ chan' = [chan EXCEPT ![t] = SubSeq(chan[t], 1, Len(chan[t]) - 1)]
            /\ deq' = [deq EXCEPT ![t] = Append(deq[t], chan[t][Len(chan[t])])]
            /\ wpc' = [wpc EXCEPT ![t] = "send"]
       ELSE /\ txDropped[t]
            /\ wpc' = [wpc EXCEPT ![t] = "stopped"]
            /\ UNCHANGED <<cur, chan, deq>>
    /\ UNCHANGED <<handed, waitsEnded, sendFailed, lastRecv, pushed>>
    /\ UNCHANGED <<mainVars, prodVars, netVars>>
    /\ UNCHANGED fnVars

\* rx.recv() as it would be if an empty channel ended the stream although
\* the sender is alive
ChanRecv_StopOnEmpty(t) ==
    /\ wpc[t] = "recv"
    /\ IF chan[t] # <<>>
       THEN /\ cur' = [cur EXCEPT ![t] = Head(chan[t])]
            /\ chan' = [chan EXCEPT ![t] = Tail(chan[t])]
            /\ deq' = [deq EXCEPT ![t] = Append(deq[t], Head(chan[t]))]
            /\ wpc' = [wpc EXCEPT ![t] = "send"]
       ELSE /\ wpc' = [wpc EXCEPT ![t] = "stopped"]
            /\ UNCHANGED <<cur, chan, deq>>
    /\ UNCHANGED <<handed, waitsEnded, sendFailed, lastRecv, pushed>>
    /\ UNCHANGED <<mainVars, prodVars, netVars>>
    /\ UNCHANGED fnVars

\* rx.recv().await: the oldest queued envelope; None (the loop ends and
\* the task returns) when the channel is empty and the sender is dropped;
\* suspended when it is empty and the sender is alive
ChanRecv(t) ==
    /\ wpc[t] = "recv"
    /\ IF chan[t] # <<>>
       THEN /\ cur' = [cur EXCEPT ![t] = Head(chan[t])]
            /\ chan' = [chan EXCEPT ![t] = Tail(chan[t])]
            /\ deq' = [deq EXCEPT ![t] = Append(deq[t], Head(chan[t]))]
            /\ wpc' = [wpc EXCEPT ![t] = "send"]
       ELSE /\ txDropped[t]
            /\ wpc' = [wpc EXCEPT ![t] = "stopped"]
            /\ UNCHANGED <<cur, chan, deq>>
    /\ UNCHANGED <<handed, waitsEnded, sendFailed, lastRecv, pushed>>
    /\ UNCHANGED <<mainVars, prodVars, netVars>>
    /\ UNCHANGED fnVars

\* send_to as it would be if the loop went round without the receive: the
\* next frame is sent while the last request is still unanswered
SendTo_NoWait(t) ==
    /\ wpc[t] = "send"
    /\ handed' = [handed EXCEPT ![t] = Append(handed[t], cur[t][1])]
    /\ net' = [net EXCEPT ![t] = Append(net[t], cur[t][1])]
    /\ sendFailed' = [sendFailed EXCEPT ![t] = FALSE]
    /\ wpc' = [wpc EXCEPT ![t] = "recv"]
    /\ UNCHANGED <<cur, waitsEnded, lastRecv, inbox>>
    /\ UNCHANGED <<mainVars, prodVars, chanVars>>
    /\ UNCHANGED fnVars

\* let _ = socket.send_to(&buf[..], &addr).await: the datagram leaves, or
\* the call fails; the result is discarded and recv_from is called next
SendTo(t) ==
    /\ wpc[t] = "send"
    /\ handed' = [handed EXCEPT ![t] = Append(handed[t], cur[t][1])]
    /\ \E r \in Results :
        IF r = "ok"
        THEN /\ net' = [net EXCEPT ![t] = Append(net[t], cur[t][1])]
             /\ sendFailed' = [sendFailed EXCEPT ![t] = FALSE]
        ELSE /\ net' = net
             /\ sendFailed' = [sendFailed EXCEPT ![t] = TRUE]
    /\ wpc' = [wpc EXCEPT ![t] = "wait"]
    /\ UNCHANGED <<cur, waitsEnded, lastRecv, inbox>>
    /\ UNCHANGED <<mainVars, prodVars, chanVars>>
    /\ UNCHANGED fnVars

\* recv_from as it would be if the worker took only the datagram whose
\* header carries the sequence id of the request in flight
RecvFromOk_MatchSeq(t) ==
    /\ wpc[t] = "wait"
    /\ inbox[t] # <<>>
    /\ Head(inbox[t])[1] = FromBeBytes(cur[t][1])
    /\ inbox' = [inbox EXCEPT ![t] = Tail(inbox[t])]
    /\ lastRecv' = [lastRecv EXCEPT ![t] = Head(inbox[t])]
    /\ waitsEnded' = [waitsEnded EXCEPT ![t] = waitsEnded[t] + 1]
    /\ wpc' = [wpc EXCEPT ![t] = "recv"]
    /\ UNCHANGED <<cur, handed, sendFailed, net>>
    /\ UNCHANGED <<mainVars, prodVars, chanVars>>
    /\ UNCHANGED fnVars

\* socket.recv_from(&mut buf).await returns Ok: a datagram is queued at the
\* socket; whichever it is, it is taken and the loop goes round
RecvFromOk(t) ==
    /\ wpc[t] = "wait"
    /\ inbox[t] # <<>>
    /\ inbox' = [inbox EXCEPT ![t] = Tail(inbox[t])]
    /\ lastRecv' = [lastRecv EXCEPT ![t] = Head(inbox[t])]
    /\ waitsEnded' = [waitsEnded EXCEPT ![t] = waitsEnded[t] + 1]
    /\ wpc' = [wpc EXCEPT ![t] = "recv"]
    /\ UNCHANGED <<cur, handed, sendFailed, net>>
    /\ UNCHANGED <<mainVars, prodVars, chanVars>>
    /\ UNCHANGED fnVars

\* recv_from returning Err as it would be if the loop then sent the same
\* frame again instead of going round to rx.recv()
RecvFromErr_Retry(t) ==
    /\ wpc[t] = "wait"
    /\ lastRecv' = [lastRecv EXCEPT ![t] = NoDatagram]
    /\ waitsEnded' = [waitsEnded EXCEPT ![t] = waitsEnded[t] + 1]
    /\ wpc' = [wpc EXCEPT ![t] = "send"]
    /\ UNCHANGED <<cur, handed, sendFailed>>
    /\ UNCHANGED <<mainVars, prodVars, chanVars, netVars>>
    /\ UNCHANGED fnVars

\* socket.recv_from(&mut buf).await returns Err: the `if let Ok` does not
\* match and the loop goes round
RecvFromErr(t) ==
    /\ wpc[t] = "wait"
    /\ lastRecv' = [lastRecv EXCEPT ![t] = NoDatagram]
    /\ waitsEnded' = [waitsEnded EXCEPT ![t] = waitsEnded[t] + 1]
    /\ wpc' = [wpc EXCEPT ![t] = "recv"]
    /\ UNCHANGED <<cur, handed, sendFailed>>
    /\ UNCHANGED <<mainVars, prodVars, chanVars, netVars>>
    /\ UNCHANGED fnVars

(***************************************************************************)
(* The network and the server: a request datagram is answered by one       *)
(* datagram that carries the request's sequence id, or it is lost (the     *)
(* request or its response is dropped).                                    *)
(***************************************************************************)
ServerReply(t) ==
    /\ net[t] # <<>>
    /\ net' = [net EXCEPT ![t] = Tail(net[t])]
    /\ inbox' = [inbox EXCEPT ![t] = Append(inbox[t], Response(Head(net[t])))]
    /\ UNCHANGED <<mainVars, prodVars, workVars, chanVars>>
    /\ UNCHANGED fnVars

Lose(t) ==
    /\ net[t] # <<>>
    /\ net' = [net EXCEPT ![t] = Tail(net[t])]
    /\ UNCHANGED inbox
    /\ UNCHANGED <<mainVars, prodVars, workVars, chanVars>>
    /\ UNCHANGED fnVars

\* the server has no value for the key (it was evicted): the response
\* carries its sequence id and no value
ReplyMiss(t) ==
    /\ net[t] # <<>>
    /\ net' = [net EXCEPT ![t] = Tail(net[t])]
    /\ inbox' = [inbox EXCEPT ![t] =
                    Append(inbox[t], Datagram(FromBeBytes(Head(net[t])), <<>>))]
    /\ UNCHANGED <<mainVars, prodVars, workVars, chanVars>>
    /\ UNCHANGED fnVars

\* the network duplicates the response: it is queued twice at the socket
ReplyTwice(t) ==
    /\ net[t] # <<>>
    /\ net' = [net EXCEPT ![t] = Tail(net[t])]
    /\ inbox' = [inbox EXCEPT ![t] =
                    inbox[t] \o <<Response(Head(net[t])), Response(Head(net[t]))>>]
    /\ UNCHANGED <<mainVars, prodVars, workVars, chanVars>>
    /\ UNCHANGED fnVars

(***************************************************************************)
(* The specifications.                                                     *)
(***************************************************************************)
MainStep == Connect \/ Example \/ Flush \/ SetEntry \/ SpawnTask \/ JoinTask \/ Stats

ProducerStep(t) == Bind(t) \/ Produce(t) \/ ChanSend(t) \/ DropTx(t) \/ AwaitWorker(t)

WorkerStep(t) == ChanRecv(t) \/ SendTo(t) \/ RecvFromOk(t) \/ RecvFromErr(t)

NetStep(t) == ServerReply(t) \/ Lose(t)

Next ==
    \/ MainStep
    \/ \E t \in Tasks : ProducerStep(t) \/ WorkerStep(t) \/ NetStep(t)

Spec == Init /\ [][Next]_vars

\* The runtime runs every task that can take a step, and a datagram on its
\* way is delivered or lost.  A recv_from on a socket with a queued
\* datagram returns; nothing makes the operating system fail a recv_from,
\* so RecvFromErr is not fair.
Fairness ==
    /\ WF_vars(MainStep)
    /\ \A t \in Tasks :
        /\ WF_vars(ProducerStep(t))
        /\ WF_vars(ChanRecv(t) \/ SendTo(t) \/ RecvFromOk(t))
        /\ WF_vars(NetStep(t))

FairSpec == Init /\ [][Next]_vars /\ Fairness


\* The program on a network that also duplicates responses and a server
\* that may have lost a key.
NetNext ==
    \/ Next
    \/ \E t \in Tasks : ReplyMiss(t) \/ ReplyTwice(t)

\* one task is enough to see what a socket does with its datagrams
NetInit == Init /\ threads = 1

NetSpec == NetInit /\ [][NetNext]_vars

(***************************************************************************)
(* The program with a responsive server: every send_to succeeds and every  *)
(* request datagram is answered by one datagram (none is lost).            *)
(***************************************************************************)
\* send_to returns Ok: the datagram leaves
SendToOk(t) == SendTo(t) /\ ~sendFailed'[t]

\* the steps of socket_task and of the server that do not rest on an error
ServedStep(t) == ChanRecv(t) \/ SendToOk(t) \/ RecvFromOk(t) \/ ServerReply(t)

ResponsiveNext ==
    \/ MainStep
    \/ \E t \in Tasks : ProducerStep(t) \/ ServedStep(t) \/ RecvFromErr(t)

\* The runtime runs every task that can take a step and the server answers
\* every request; nothing makes a recv_from fail, so RecvFromErr is not
\* fair.
ResponsiveFairness ==
    /\ WF_vars(MainStep)
    /\ \A t \in Tasks :
        /\ WF_vars(ProducerStep(t))
        /\ WF_vars(ServedStep(t))

ResponsiveFairSpec == Init /\ [][ResponsiveNext]_vars /\ ResponsiveFairness

(***************************************************************************)
(* The benchmark phase on a corpus of any size, the empty one included:    *)
(* the corpus is in place and main is at the head of its spawn loop.       *)
(***************************************************************************)
CorpusInit ==
    /\ threads \in 1..MaxThreads
    /\ nums \in 0..MaxNums
    /\ threads * nums <= MaxTotal
    /\ dictLen \in 0..MaxDict
    /\ mainpc = "spawn"
    /\ outcome = "running"
    /\ setCount = dictLen
    /\ spawned = 0
    /\ joined = 0
    /\ calls = <<>>
    /\ TasksNotStarted
    /\ FnUnused

CorpusNext ==
    \/ SpawnTask \/ JoinTask \/ JoinPanicked \/ Stats
    \/ \E t \in Tasks :
          ProducerStep(t) \/ ProducePanic(t) \/ WorkerStep(t) \/ NetStep(t)

CorpusSpec == CorpusInit /\ [][CorpusNext]_vars

(***************************************************************************)
(* wrap_get_command on its own: called with any key and any u16 sequence   *)
(* id; fnArg holds the arguments, fnRes the bytes returned.                *)
(***************************************************************************)
CodecInit ==
    /\ ProgramUnused
    /\ fnPc = "wrap_get_command"
    /\ fnArg \in StringsUpTo(MaxKeyLen) \X (0..(U16 - 1))
    /\ fnRes = <<>>

WrapCall ==
    /\ fnPc = "wrap_get_command"
    /\ fnRes' = wrap_get_command(fnArg[1], fnArg[2])
    /\ fnPc' = "wrapped"
    /\ UNCHANGED fnArg
    /\ UNCHANGED <<mainVars, prodVars, workVars, chanVars, netVars>>

CodecNext == WrapCall

CodecSpec == CodecInit /\ [][CodecNext]_vars

(***************************************************************************)
(* generate_memcached_test_dict on its own: called with any key size,      *)
(* value size and entry count.  fnArg holds the arguments; while the       *)
(* iterator runs fnRes holds the number of pairs drawn and the map         *)
(* collected so far (the set of its (key, value) entries), and at the end  *)
(* the map returned.                                                       *)
(***************************************************************************)
\* HashMap::insert, which collect() applies to each pair: the new value
\* replaces the value of a key the map already holds
MapInsert(map, k, v) == {e \in map : e[1] # k} \cup {<<k, v>>}

DictInit ==
    /\ ProgramUnused
    /\ fnPc = "generate"
    /\ fnArg \in (0..MaxKeyLen) \X (0..MaxValLen) \X (0..MaxEntries)
    /\ fnRes = <<0, {}>>

\* one item of (0..nums).map(...): two random strings, collected
DrawEntry ==
    /\ fnPc = "generate"
    /\ fnRes[1] < fnArg[3]
    /\ \E k \in StringsOfLen(fnArg[1]), v \in StringsOfLen(fnArg[2]) :
        fnRes' = <<fnRes[1] + 1, MapInsert(fnRes[2], k, v)>>
    /\ UNCHANGED <<fnPc, fnArg>>
    /\ UNCHANGED <<mainVars, prodVars, workVars, chanVars, netVars>>

\* the iterator is exhausted: collect() returns the map
Collect ==
    /\ fnPc = "generate"
    /\ fnRes[1] = fnArg[3]
    /\ fnRes' = fnRes[2]
    /\ fnPc' = "generated"
    /\ UNCHANGED fnArg
    /\ UNCHANGED <<mainVars, prodVars, workVars, chanVars, netVars>>

DictNext == DrawEntry \/ Collect

DictSpec == DictInit /\ [][DictNext]_vars

(***************************************************************************)
(* The sequence counter of get_command_benchmark on its own: the loop      *)
(* body's three statements on seq, iterated past 65536 with no channel and *)
(* no socket.  fnArg holds the key, fnRes the number of packets built, the *)
(* counter seq and the last packet built.                                  *)
(***************************************************************************)
SeqInit ==
    /\ ProgramUnused
    /\ fnPc = "sequence"
    /\ fnArg \in {<<k>> : k \in StringsOfLen(1)}
    /\ fnRes = <<0, 0, <<>>>>

\* let packet = wrap_get_command(key, seq).await; seq = seq.wrapping_add(1);
SeqStep ==
    /\ fnPc = "sequence"
    /\ fnRes[1] < MaxPushes
    /\ fnRes' = <<fnRes[1] + 1,
                  WrappingAdd1(fnRes[2]),
                  wrap_get_command(fnArg[1], fnRes[2])>>
    /\ UNCHANGED <<fnPc, fnArg>>
    /\ UNCHANGED <<mainVars, prodVars, workVars, chanVars, netVars>>

SeqNext == SeqStep

SeqSpec == SeqInit /\ [][SeqNext]_vars

(***************************************************************************)
(* Derived state.                                                          *)
(***************************************************************************)
\* the number of calls of server.stats()
StatsCalls == Cardinality({j \in 1..Len(calls) : calls[j][1] = "stats"})

\* the requests of task t whose packet was handed to the socket and whose
\* recv_from has not returned yet
InFlight(t) == Len(handed[t]) - waitsEnded[t]

\* s is a prefix of q
IsPrefix(s, q) == Len(s) <= Len(q) /\ \A j \in 1..Len(s) : s[j] = q[j]

(***************************************************************************)
(* C1.  After socket_task has sent the frame of an envelope it waits for   *)
(* the response only for a bounded time: whatever the network does, a      *)
(* worker that is waiting in recv_from eventually leaves the wait and is   *)
(* back at rx.recv() for the next envelope.                                *)
(***************************************************************************)
C1_BoundedWait == \A t \in Tasks : (wpc[t] = "wait") ~> (wpc[t] = "recv")

(***************************************************************************)
(* C2.  A run whose benchmark tasks have been spawned always terminates,   *)
(* whatever responses are lost: every worker stops, the join of all tasks  *)
(* returns and main reaches the stats step.                                *)
(***************************************************************************)
C2_RunTerminates ==
    (mainpc = "join") ~>
        /\ mainpc \in {"stats", "done"}
        /\ \A t \in 1..threads : wpc[t] \in {"none", "stopped"}

(***************************************************************************)
(* C3.  A worker has at most one request in flight: a frame is in flight   *)
(* exactly while the worker is inside recv_from, the worker is about to    *)
(* send only when every earlier recv_from has returned, and the frames     *)
(* handed to the socket are, in order, the packets of the envelopes        *)
(* dequeued so far (all of them but the one still to be sent).             *)
(***************************************************************************)
C3_OneInFlight ==
    \A t \in Tasks :
        /\ InFlight(t) \in {0, 1}
        /\ InFlight(t) = 1 <=> wpc[t] = "wait"
        /\ wpc[t] = "send" => waitsEnded[t] = Len(deq[t]) - 1
        /\ IsPrefix(handed[t], [j \in 1..Len(deq[t]) |-> deq[t][j][1]])
        /\ Len(handed[t]) = IF wpc[t] = "send" THEN Len(deq[t]) - 1 ELSE Len(deq[t])

\* a worker has sent its second frame after the wait for the first ended
C3_Witness ==
    \E t \in Tasks : Len(handed[t]) = 2 /\ waitsEnded[t] = 1 /\ wpc[t] = "wait"

(***************************************************************************)
(* C4.  The channel hands over every envelope exactly once and in FIFO     *)
(* order: the envelopes pushed are the envelopes dequeued followed by the  *)
(* envelopes still queued, no envelope is dequeued twice, and once the     *)
(* worker has stopped everything pushed has been dequeued.                 *)
(***************************************************************************)
C4_ExactlyOnceFifo ==
    \A t \in Tasks :
        /\ pushed[t] = deq[t] \o chan[t]
        /\ IsPrefix(deq[t], pushed[t])
        /\ \A j, k \in 1..Len(deq[t]) : j # k => deq[t][j] # deq[t][k]
        /\ wpc[t] = "stopped" => deq[t] = pushed[t]

\* a worker has stopped after dequeuing several envelopes, two of which were
\* queued at the same time
C4_Witness ==
    \E t \in Tasks : wpc[t] = "stopped" /\ Len(deq[t]) = 3 /\ nums = 3

(***************************************************************************)
(* C5.  Backpressure is by blocking only: a channel never holds more than  *)
(* its capacity; while the channel is full a producer inside tx.send stays *)
(* there with the same envelope (nothing is pushed, dropped or failed);    *)
(* and what a push enqueues is the envelope tx.send was called with.       *)
(***************************************************************************)
C5_Backpressure ==
    /\ [](\A t \in Tasks : Len(chan[t]) <= ChanCap)
    /\ [][\A t \in Tasks :
            /\ (tpc[t] = "send" /\ Len(chan[t]) = ChanCap) =>
                  /\ tpc'[t] = "send"
                  /\ pending'[t] = pending[t]
                  /\ pushed'[t] = pushed[t]
                  /\ ~breakTaken'[t]
            /\ pushed'[t] # pushed[t] =>
                  /\ Len(chan[t]) < ChanCap
                  /\ pushed'[t] = Append(pushed[t], pending[t])
                  /\ chan'[t] = Append(chan[t], pending[t])]_vars

\* a producer is inside tx.send with its next envelope while the channel
\* is full
C5_Witness ==
    \E t \in Tasks :
        /\ tpc[t] = "send"
        /\ Len(chan[t]) = ChanCap
        /\ Len(pushed[t]) = ChanCap

C7_StopsWhenClosedAndEmpty ==
    \A t \in Tasks :
        /\ wpc[t] = "stopped" => txDropped[t] /\ chan[t] = <<>>
        /\ tpc[t] = "send" => ~RxDropped(t)
        /\ ~breakTaken[t]
        /\ (wpc[t] = "recv" /\ txDropped[t] /\ chan[t] = <<>>) =>
              /\ ENABLED (ChanRecv(t) /\ wpc'[t] = "stopped")
              /\ ~ENABLED (WorkerStep(t) /\ wpc'[t] # "stopped")

\* a worker has stopped after it drained its channel
C7_Witness ==
    \E t \in Tasks : wpc[t] = "stopped" /\ Len(deq[t]) = 2 /\ txDropped[t]

(***************************************************************************)
(* C8.  A network error on one request does not stop the worker: when      *)
(* send_to has failed for an envelope, the worker, now in recv_from,       *)
(* goes on to rx.recv() for the next envelope.                             *)
(***************************************************************************)
C8_ErrorNotFatal ==
    \A t \in Tasks : (wpc[t] = "wait" /\ sendFailed[t]) ~> (wpc[t] = "recv")

(***************************************************************************)
(* C9.  Setup errors.                                                      *)
(***************************************************************************)
\* the fallible calls of main before the benchmark
SetupCalls == {"connect", "example", "flush", "set"}

\* one of them has returned an error
SetupFailed ==
    \E j \in 1..Len(calls) : calls[j][1] \in SetupCalls /\ calls[j][2] = "err"

\* the bind of task t has returned an error
BindFailed(t) == tpc[t] = "err"

\* C9 as claimed: every setup error, the failed bind of a benchmark task
\* included, aborts the run: the stats are not requested and the process
\* does not end with success.
C9_EverySetupErrorFatal ==
    (SetupFailed \/ \E t \in Tasks : BindFailed(t)) =>
        /\ StatsCalls = 0
        /\ outcome # "ok"

\* C9 as amended: a failed connection, example check, flush or set is
\* fatal: main has returned the error, the failing call is the last call
\* main made, no benchmark task was spawned, no GET frame was handed to a
\* socket and the stats were not requested.  A failed bind ends its own
\* benchmark task only: that task has no worker, pushes nothing and sends
\* nothing.
C9_SetupErrorsAmended ==
    /\ SetupFailed =>
          /\ outcome = "err"
          /\ calls[Len(calls)][2] = "err"
          /\ \A j \in 1..(Len(calls) - 1) : calls[j][2] = "ok"
          /\ spawned = 0
          /\ StatsCalls = 0
          /\ \A t \in Tasks : tpc[t] = "unspawned" /\ handed[t] = <<>>
    /\ \A t \in Tasks :
          BindFailed(t) => wpc[t] = "none" /\ pushed[t] = <<>> /\ handed[t] = <<>>

\* a bind has failed, another task has sent its GETs, and main has
\* requested the stats and returned Ok
C9_Witness ==
    \E t, u \in Tasks :
        /\ BindFailed(t)
        /\ handed[u] # <<>>
        /\ StatsCalls = 1
        /\ outcome = "ok"

(***************************************************************************)
(* C10.  Phase ordering: a GET frame is handed to a socket only after the  *)
(* flush and then one set per corpus entry have succeeded; the stats are   *)
(* requested at most once, only when every benchmark task has returned     *)
(* (its worker, if any, has stopped), and exactly once in a run that       *)
(* returns Ok.                                                             *)
(***************************************************************************)
\* the calls of the admin client that returned Ok, in order
OkCalls == SelectSeq(calls, LAMBDA c : c[2] = "ok" /\ c[1] \in {"flush", "set", "stats"})

C10_PhaseOrdering ==
    /\ \A t \in Tasks :
          handed[t] # <<>> =>
              /\ dictLen > 0
              /\ Len(OkCalls) >= dictLen + 1
              /\ OkCalls[1][1] = "flush"
              /\ \A j \in 2..(dictLen + 1) : OkCalls[j][1] = "set"
    /\ StatsCalls <= 1
    /\ StatsCalls = 1 =>
          /\ spawned = threads
          /\ joined = threads
          /\ \A t \in 1..threads : Finished(t) /\ wpc[t] \in {"none", "stopped"}
    /\ outcome = "ok" => StatsCalls = 1

\* the stats have been requested in a run that sent GETs
C10_Witness ==
    /\ StatsCalls = 1
    /\ \E t \in Tasks : Len(handed[t]) = 2

(***************************************************************************)
(* C11.  The elapsed time.                                                 *)
(***************************************************************************)
\* the "Time elapsed" lines printed so far in the run
RECURSIVE ElapsedUpTo(_)
ElapsedUpTo(n) == IF n = 0 THEN 0 ELSE elapsed[n] + ElapsedUpTo(n - 1)

ElapsedReports == ElapsedUpTo(MaxThreads)

\* a socket_task is running
WorkerRunning(t) == wpc[t] \in {"recv", "send", "wait"}

Diagnostics(t) == <<>>

\* the last recv_from of task t returned a datagram whose value is not the
\* corpus value of the key of the request it ended the wait for
MismatchReceived(t) ==
    /\ wpc[t] = "recv"
    /\ waitsEnded[t] > 0
    /\ lastRecv[t] # NoDatagram
    /\ lastRecv[t][2] # CorpusValue(KeyOfFrame(handed[t][Len(handed[t])]))

\* C12 as claimed: a response whose value differs from the corpus value of
\* the envelope's key makes the worker emit a mismatch diagnostic.
C12_MismatchDiagnosed ==
    \A t \in Tasks : MismatchReceived(t) => Diagnostics(t) # <<>>

(***************************************************************************)
(* C19.  Responses are attributed by position: while a request is in       *)
(* flight, the datagram at the head of the socket's queue, whatever        *)
(* sequence id it carries, can be received, and receiving it ends the wait *)
(* of that request.                                                        *)
(***************************************************************************)
C19_AttributedByPosition ==
    \A t \in Tasks :
        (wpc[t] = "wait" /\ inbox[t] # <<>>) =>
            ENABLED (/\ RecvFromOk(t)
                     /\ lastRecv'[t] = Head(inbox[t])
                     /\ waitsEnded'[t] = Len(handed[t])
                     /\ wpc'[t] = "recv")

\* the wait of a later envelope was ended by the response to an earlier
\* request
C19_Witness ==
    \E t \in Tasks :
        /\ wpc[t] = "recv"
        /\ waitsEnded[t] = 2
        /\ lastRecv[t] # NoDatagram
        /\ lastRecv[t][1] < FromBeBytes(handed[t][2])

(***************************************************************************)
(* C16.  No retries: a frame is handed to the socket only by the send_to   *)
(* that follows a dequeue, and it is the frame of the envelope just        *)
(* dequeued, so that the sends then number the dequeues; a wait that ends  *)
(* (by a datagram or by an error, after a send that succeeded or failed)   *)
(* leads to the next dequeue with nothing sent again; and outside the      *)
(* instant between a dequeue and its send the number of sends equals the   *)
(* number of dequeues.                                                     *)
(***************************************************************************)
C16_NoRetries ==
    /\ [](\A t \in Tasks : wpc[t] # "send" => Len(handed[t]) = Len(deq[t]))
    /\ [][\A t \in Tasks :
            /\ handed'[t] # handed[t] =>
                  /\ wpc[t] = "send"
                  /\ handed'[t] = Append(handed[t], deq[t][Len(deq[t])][1])
                  /\ Len(handed'[t]) = Len(deq[t])
            /\ (wpc[t] = "wait" /\ wpc'[t] # "wait") =>
                  /\ wpc'[t] = "recv"
                  /\ handed'[t] = handed[t]
            /\ (wpc[t] = "recv" /\ wpc'[t] = "send") =>
                  Len(deq'[t]) = Len(deq[t]) + 1]_vars

\* the wait of a request whose send failed was ended by a receive error, and
\* the worker went on to the next envelope: two dequeues, two sends
C16_Witness ==
    \E t \in Tasks :
        /\ sendFailed[t]
        /\ lastRecv[t] = NoDatagram
        /\ waitsEnded[t] = 1
        /\ wpc[t] = "wait"
        /\ Len(deq[t]) = 2
        /\ Len(handed[t]) = 2

(***************************************************************************)
(* C17.  Key sampling.                                                     *)
(***************************************************************************)
\* C17 as claimed: at every producer step each of the dictLen keys of the
\* corpus, the last one included, can be the key of the packet built.
C17_EveryKeySelectable ==
    \A t \in Tasks :
        tpc[t] = "loop" =>
            \A k \in 0..(dictLen - 1) :
                ENABLED (/\ Produce(t)
                         /\ pending'[t][1] = wrap_get_command(KeyStr(k), seq[t]))

(***************************************************************************)
(* C13.  The frame wrap_get_command returns for key K and sequence id S is *)
(* an 8-byte header followed by "get " K CR LF: its length is              *)
(* 8 + 4 + Len(K) + 2, its first two bytes are S high byte first, its next *)
(* six bytes are 0 0 0 1 0 0 whatever S and K, and its first two bytes     *)
(* read as a big-endian u16 give S.                                        *)
(***************************************************************************)
C13_FrameLayout ==
    fnPc = "wrapped" =>
        LET K == fnArg[1]
            S == fnArg[2]
        IN  /\ Len(fnRes) = 8 + 4 + Len(K) + 2
            /\ \A j \in 1..Len(fnRes) : fnRes[j] \in 0..255
            /\ fnRes[1] * 256 + fnRes[2] = S
            /\ SubSeq(fnRes, 3, 8) = <<0, 0, 0, 1, 0, 0>>
            /\ SubSeq(fnRes, 9, 12) = <<103, 101, 116, 32>>
            /\ SubSeq(fnRes, 13, 12 + Len(K)) = K
            /\ SubSeq(fnRes, 13 + Len(K), Len(fnRes)) = <<13, 10>>
            /\ FromBeBytes(SubSeq(fnRes, 1, 2)) = S

\* the frame of a two-letter key with a sequence id whose two bytes differ
C13_Witness ==
    /\ fnPc = "wrapped"
    /\ fnArg = <<<<65, 66>>, 258>>
    /\ fnRes = <<1, 2, 0, 0, 0, 1, 0, 0, 103, 101, 116, 32, 65, 66, 13, 10>>

(***************************************************************************)
(* C14.  The generated corpus.                                             *)
(***************************************************************************)
\* C14 as claimed: the map returned for entry count n has exactly n
\* entries, every key of the requested key size and every value of the
\* requested value size.
C14_CorpusHasNumsEntries ==
    fnPc = "generated" =>
        /\ Cardinality(fnRes) = fnArg[3]
        /\ \A e \in fnRes : Len(e[1]) = fnArg[1] /\ Len(e[2]) = fnArg[2]

C18_WrappingSeq ==
    fnPc = "sequence" =>
        /\ fnRes[2] = fnRes[1] % U16
        /\ fnRes[2] \in 0..(U16 - 1)
        /\ fnRes[1] > 0 => FromBeBytes(fnRes[3]) = (fnRes[1] - 1) % U16
        /\ fnRes[1] < MaxPushes => ENABLED SeqStep

\* the packet after the one with sequence id 65535 carries sequence id 0,
\* and the counter has gone on to 1
C18_Witness ==
    /\ fnPc = "sequence"
    /\ fnRes[1] = U16 + 1
    /\ fnRes[2] = 1
    /\ FromBeBytes(fnRes[3]) = 0

=============================================================================
